---- MODULE Spec2Model ----
(***************************************************************************)
(* A model of data_fetcher.py: the incremental market-capitalisation       *)
(* pipeline (load_existing_data, get_nasdaq_tickers, fetch_data,           *)
(* process_data, main) and the JSON store nasdaq_data.json it maintains.   *)
(*                                                                         *)
(* Dates are day numbers counted from 1995-01-01 (day 0).  The program     *)
(* handles dates as fixed-width "%Y-%m-%d" strings, whose lexicographic    *)
(* order is the order of the day numbers; strptime/strftime and the        *)
(* timedelta arithmetic are therefore arithmetic on day numbers.           *)
(*                                                                         *)
(* Prices are floats; they are modelled as integers counted in units of    *)
(* 1/PriceScale, so that a capitalisation can have a fractional part and   *)
(* int() truncates something.  A float cell is a record [nan, v].          *)
(***************************************************************************)
EXTENDS Integers, Sequences, FiniteSets, TLC

\* ---------------------------------------------------------------- bounds
MaxDay == 104
MaxRuns == 3
PriceScale == 2

\* ------------------------------------------------------ program constants
Periods == 63
ContextDays == 100
MinCap == 1000000
EpochStart == 0

\* ------------------------------------------------------------ float cells
NaN == [nan |-> TRUE, v |-> 0]
Num(x) == [nan |-> FALSE, v |-> x]

\* pd.isna
IsNa(c) == c.nan

\* a variant of AddCell: a missing operand counts as zero (fill_value=0)
AddCellZeroFill(a, b) ==
    IF a.nan /\ b.nan THEN NaN
    ELSE Num((IF a.nan THEN 0 ELSE a.v) + (IF b.nan THEN 0 ELSE b.v))

\* float addition of two cells: NaN propagates
AddCell(a, b) == IF a.nan \/ b.nan THEN NaN ELSE Num(a.v + b.v)

\* price * shares (DataFrame.mul against the shares series)
MulCell(a, s) == IF a.nan THEN NaN ELSE Num(a.v * s)

\* ------------------------------------------------------------ dict access
\* dict.get(k, default) on a dict modelled as a function with a string domain
DictGet(d, k, default) == IF k \in DOMAIN d THEN d[k] ELSE default

\* d[k] = v
DictSet(d, k, v) == [x \in (DOMAIN d) \cup {k} |-> IF x = k THEN v ELSE d[x]]

EmptyDict == [x \in {} |-> 0]

\* ------------------------------------------------------ sequence helpers
Range(s) == {s[i] : i \in 1..Len(s)}

RECURSIVE Dedup(_)
Dedup(s) ==
    IF Len(s) = 0 THEN <<>>
    ELSE LET front == Dedup(SubSeq(s, 1, Len(s) - 1))
             x == s[Len(s)]
         IN IF x \in Range(front) THEN front ELSE Append(front, x)

\* the days lo..hi in increasing order that are in S
SortedDays(S, lo, hi) ==
    LET all == [i \in 1..(IF hi >= lo THEN hi - lo + 1 ELSE 0) |-> lo + i - 1]
        In(d) == d \in S
    IN SelectSeq(all, In)

RECURSIVE Flatten(_, _)
Flatten(rows, n) ==
    IF n = 0 THEN <<>> ELSE Flatten(rows, n - 1) \o rows[n]

\* a variant of MaxOf: the date of the first record, not the latest
MaxOfFirst(s) == s[1]

\* max() over a non-empty list of dates
MaxOf(s) ==
    LET S == Range(s)
    IN CHOOSE m \in S : \A x \in S : x <= m


\* ================================================================ state
VARIABLES
    store,          \* nasdaq_data.json: [kind: "absent" | "json" | "garbled", data]
    now,            \* datetime.datetime.now(), as a day number
    market,         \* upstream price history: symbol -> shape of its series
    info,           \* upstream metadata: symbol -> result of yf.Ticker(t).info
    scrape,         \* what the Wikipedia scrape yields
    dlFails,        \* whether yf.download raises
    pad,            \* whether the installed pandas forward-fills in pct_change
    pc,             \* position of main()
    runs,           \* number of runs of main() started
    exitCode,       \* "running" | "ok" | "fail" of the current or last run
    prevExit,       \* exit code of the run before ("none" when there is none)
    envLog,         \* <<upstream and clock of the run before, of the current run>>
    store0,         \* the store as it was when the current run began
    wrote,          \* the current run opened the store for writing
    calls,          \* collaborator calls of the current run
    existing_data,  \* main's locals, below
    last_date,      \* last_date_str: <<>> for None, <<d>> for a date
    tickers,
    price_data,
    shares_data,
    sectors_data,
    names_data,
    processed,      \* what process_data returned (new_output before the filter)
    new_output,
    final_output

envVars == <<now, market, info, scrape, dlFails, pad>>
histVars == <<runs, exitCode, prevExit, envLog, store0, wrote, calls>>
fetchVars == <<price_data, shares_data, sectors_data, names_data>>
outVars == <<processed, new_output, final_output>>
loadVars == <<existing_data, last_date>>
vars == <<store, envVars, pc, histVars, loadVars, tickers, fetchVars, outVars>>

\* ============================================================= upstream
\* a trading calendar: no rows on Saturdays and Sundays (day 0 is a Sunday)
Weekend(d) == d % 7 \in {0, 6}

\* the close of a symbol on a day: a series listed from sh.first, with the
\* missing days sh.gaps, quoting sh.lo before day sh.sw and sh.hi from it on
ShapePrice(sh, d) ==
    IF d < sh.first \/ d \in sh.gaps \/ Weekend(d) THEN NaN
    ELSE Num(IF d < sh.sw THEN sh.lo ELSE sh.hi)

UpPrice(t, d) ==
    IF t \in DOMAIN market THEN ShapePrice(market[t], d) ELSE NaN

\* yf.download(tickers, start=start)['Close']: one column per distinct
\* requested ticker, one row per day from start on which any of them trades
Download(tks, start) ==
    LET cols == Dedup(tks)
        days == {d \in 0..now : d >= start /\ \E t \in Range(cols) : ~UpPrice(t, d).nan}
        index == SortedDays(days, 0, now)
    IN [index |-> index,
        columns |-> cols,
        val |-> [t \in Range(cols) |-> [i \in 1..Len(index) |-> UpPrice(t, index[i])]]]

EmptyFrame == [index |-> <<>>, columns |-> <<>>, val |-> EmptyDict]

\* DataFrame.empty
IsEmpty(df) == Len(df.index) = 0 \/ Len(df.columns) = 0

\* ================================================== get_nasdaq_tickers
Fallback == <<"AAPL", "MSFT", "NVDA", "GOOGL", "AMZN", "META", "TSLA", "AVGO", "PEP", "COST">>

\* t.replace('.', '-') on the symbols the model knows
Clean(t) == IF t = "BRK.B" THEN "BRK-B" ELSE t

get_nasdaq_tickers(sc) ==
    IF sc.ok THEN [i \in 1..Len(sc.table) |-> Clean(sc.table[i])] ELSE Fallback

\* ========================================================== fetch_data
\* the metadata loop: one entry per ticker, defaults when the lookup raises
\* or the key is missing
MetaShares(tks) ==
    [t \in Range(tks) |-> IF info[t].ok THEN DictGet(info[t].dict, "sharesOutstanding", 0) ELSE 0]

MetaSectors(tks) ==
    [t \in Range(tks) |-> IF info[t].ok THEN DictGet(info[t].dict, "sector", "Unknown") ELSE "Unknown"]

MetaNames(tks) ==
    [t \in Range(tks) |-> IF info[t].ok THEN DictGet(info[t].dict, "longName", t) ELSE t]

fetch_data(tks, start_date) ==
    IF dlFails
    THEN [data |-> EmptyFrame, shares |-> EmptyDict, sectors |-> EmptyDict,
          names |-> EmptyDict, meta |-> 0]
    ELSE LET data == Download(tks, start_date)
         IN IF IsEmpty(data)
            THEN [data |-> data, shares |-> EmptyDict, sectors |-> EmptyDict,
                  names |-> EmptyDict, meta |-> 0]
            ELSE [data |-> data, shares |-> MetaShares(tks), sectors |-> MetaSectors(tks),
                  names |-> MetaNames(tks), meta |-> Len(tks)]

\* ======================================================== process_data
\* step 1: price * shares for the price columns that have a shares entry
MarketCap(price, shares) ==
    LET HasShares(t) == t \in DOMAIN shares
        common == SelectSeq(price.columns, HasShares)
    IN [index |-> price.index,
        columns |-> common,
        val |-> [t \in Range(common) |->
                    [i \in 1..Len(price.index) |-> MulCell(price.val[t][i], shares[t])]]]

\* step 2, one rule: when both source columns exist, add the column of their
\* sums under the merged id, drop the sources, and set the merged id's sector
\* and name from the first source's dict entry
MergeDual(st, a, b, id, defSector, defName) ==
    LET df == st.df
        cols == Range(df.columns)
        NotSource(t) == t # a /\ t # b
        withId == IF id \in cols THEN df.columns ELSE Append(df.columns, id)
        kept == SelectSeq(withId, NotSource)
        sum == [i \in 1..Len(df.index) |-> AddCell(df.val[a][i], df.val[b][i])]
    IN IF a \in cols /\ b \in cols
       THEN [df |-> [index |-> df.index,
                     columns |-> kept,
                     val |-> [t \in Range(kept) |-> IF t = id THEN sum ELSE df.val[t]]],
             sectors |-> DictSet(st.sectors, id, DictGet(st.sectors, a, defSector)),
             names |-> DictSet(st.names, id, DictGet(st.names, a, defName))]
       ELSE st

Merged(price, shares, sectors, names) ==
    MergeDual(
        MergeDual([df |-> MarketCap(price, shares), sectors |-> sectors, names |-> names],
                  "GOOG", "GOOGL", "GOOG(L)", "Technology", "Alphabet Inc."),
        "FOX", "FOXA", "FOX(A)", "Communication Services", "Fox Corporation")

\* step 3: DataFrame.pct_change(periods=63).  Rows are the rows of the whole
\* table.  A pandas that pads (fill_method='pad', the default before 3.0)
\* forward-fills each column first.
RECURSIVE LastValid(_, _)
LastValid(col, i) ==
    IF i < 1 THEN NaN
    ELSE IF ~col[i].nan THEN col[i]
    ELSE LastValid(col, i - 1)

Filled(col, i) == IF pad THEN LastValid(col, i) ELSE col[i]

\* cur / base - 1 in floats: [kind: "nan" | "inf" | "num", n, d] is n/d - 1
PctChange(col, i) ==
    IF i <= Periods THEN [kind |-> "nan", n |-> 0, d |-> 1]
    ELSE LET cur == Filled(col, i)
             base == Filled(col, i - Periods)
         IN IF cur.nan \/ base.nan \/ (base.v = 0 /\ cur.v = 0)
            THEN [kind |-> "nan", n |-> 0, d |-> 1]
            ELSE IF base.v = 0 THEN [kind |-> "inf", n |-> cur.v, d |-> 0]
            ELSE [kind |-> "num", n |-> cur.v, d |-> base.v]

\* one decimal digit of a long division by d: qr = <<quotient, remainder>>
Digit(qr, d) == <<qr[1] * 10 + (qr[2] * 10) \div d, (qr[2] * 10) % d>>

\* round(n/d - 1, 4) counted in 1/10000: the nearest, ties to even.  The
\* quotient 10000 * (n - d) / d is divided out digit by digit.
Round4(n, d) ==
    LET qr == Digit(Digit(Digit(Digit(<<(n - d) \div d, (n - d) % d>>, d), d), d), d)
        q == qr[1]
        r == qr[2]
    IN IF 2 * r < d THEN q
       ELSE IF 2 * r > d THEN q + 1
       ELSE IF q % 2 = 0 THEN q ELSE q + 1

\* the "growth" field: 0 for NaN, the rounded ratio, or an infinity
GrowthField(g) ==
    IF g.kind = "nan" THEN [inf |-> FALSE, e4 |-> 0]
    ELSE IF g.kind = "inf" THEN [inf |-> TRUE, e4 |-> 0]
    ELSE [inf |-> FALSE, e4 |-> Round4(g.n, g.d)]

\* a variant of Skipped: only missing values are skipped
SkippedNaOnly(cap) == IsNa(cap)

\* the emission test of step 4
Skipped(cap) == IsNa(cap) \/ cap.v < MinCap * PriceScale

Entry(m, i, t) ==
    [date |-> m.df.index[i],
     name |-> t,
     fullname |-> DictGet(m.names, t, t),
     category |-> DictGet(m.sectors, t, "Unknown"),
     value |-> m.df.val[t][i].v \div PriceScale,
     growth |-> GrowthField(PctChange(m.df.val[t], i))]

\* step 4: one record per row and column whose cap is present and large enough
EmitRows(m) ==
    [i \in 1..Len(m.df.index) |->
        LET Keep(t) == ~Skipped(m.df.val[t][i])
            ks == SelectSeq(m.df.columns, Keep)
        IN [k \in 1..Len(ks) |-> Entry(m, i, ks[k])]]

process_data(price, shares, sectors, names) ==
    IF IsEmpty(price) THEN <<>>
    ELSE LET m == Merged(price, shares, sectors, names)
         IN Flatten(EmitRows(m), Len(m.df.index))

\* ================================================== load_existing_data
\* (data, last date); the last date is <<>> for None, <<d>> otherwise
load_existing_data(file) ==
    IF file.kind = "absent" THEN [data |-> <<>>, last |-> <<>>]
    ELSE IF file.kind = "garbled" THEN [data |-> <<>>, last |-> <<>>]
    ELSE IF Len(file.data) = 0 THEN [data |-> <<>>, last |-> <<>>]
    ELSE [data |-> file.data,
          last |-> <<MaxOf([i \in 1..Len(file.data) |-> file.data[i].date])>>]

\* ================================================================ main
HasLast == last_date # <<>>

\* start_date: "1995-01-01", or the day after the last persisted date
start_date == IF HasLast THEN last_date[1] + 1 ELSE EpochStart

\* fetch_start_date: start_date moved back by the context window
fetch_start_date == IF HasLast THEN last_date[1] + 1 - ContextDays ELSE EpochStart

Env == [now |-> now, market |-> market, info |-> info, scrape |-> scrape, dlFails |-> dlFails]

NoCalls == [tickers |-> 0, download |-> 0, metadata |-> 0]

ClearLocals ==
    /\ tickers' = <<>>
    /\ price_data' = EmptyFrame
    /\ shares_data' = EmptyDict
    /\ sectors_data' = EmptyDict
    /\ names_data' = EmptyDict
    /\ processed' = <<>>
    /\ new_output' = <<>>
    /\ final_output' = <<>>

\* a variant of UpToDate: the last persisted date itself is compared with now
UpToDateLate(last, today) == last # <<>> /\ last[1] > today

\* lines 192-198: the day after the last persisted date lies after now
UpToDate(last, today) == last # <<>> /\ last[1] + 1 > today

\* the process is gone, and its locals with it
DropLocals ==
    /\ existing_data' = <<>>
    /\ last_date' = <<>>
    /\ ClearLocals

\* main returns, or its handler calls sys.exit(1)
Exit(code) ==
    /\ pc' = "idle"
    /\ exitCode' = code

\* lines 186-213: load the store, compute the window, stop when up to date
StartRun ==
    /\ pc = "idle"
    /\ runs < MaxRuns
    /\ runs' = runs + 1
    /\ prevExit' = exitCode
    /\ envLog' = <<envLog[2], Env>>
    /\ store0' = store
    /\ wrote' = FALSE
    /\ calls' = NoCalls
    /\ ClearLocals
    /\ LET ld == load_existing_data(store)
       IN /\ existing_data' = ld.data
          /\ last_date' = ld.last
          /\ IF UpToDate(ld.last, now)
             THEN Exit("ok")
             ELSE pc' = "tickers" /\ exitCode' = "running"
    /\ UNCHANGED <<store, envVars>>

\* line 216
GetTickers ==
    /\ pc = "tickers"
    /\ tickers' = get_nasdaq_tickers(scrape)
    /\ calls' = [calls EXCEPT !.tickers = @ + 1]
    /\ pc' = "fetch"
    /\ UNCHANGED <<store, envVars, runs, exitCode, prevExit, envLog, store0, wrote,
                   loadVars, fetchVars, outVars>>

\* lines 220-224
FetchData ==
    /\ pc = "fetch"
    /\ LET r == fetch_data(tickers, fetch_start_date)
       IN /\ price_data' = r.data
          /\ shares_data' = r.shares
          /\ sectors_data' = r.sectors
          /\ names_data' = r.names
          /\ calls' = [calls EXCEPT !.download = @ + 1, !.metadata = @ + r.meta]
          /\ IF IsEmpty(r.data) THEN Exit("ok") ELSE pc' = "process" /\ UNCHANGED exitCode
    /\ UNCHANGED <<store, envVars, runs, prevExit, envLog, store0, wrote, loadVars, tickers, outVars>>

\* a variant of FilterNew: the context rows are kept
FilterNewNone(out) == out

\* line 231
FilterNew(out) ==
    LET New(d) == d.date >= start_date
    IN IF HasLast THEN SelectSeq(out, New) ELSE out

\* a variant of Reconcile: the old records are not carried over
ReconcileNewOnly(existing, new) == new

\* line 244
Reconcile(existing, new) ==
    LET Old(d) == d.date < start_date
    IN SelectSeq(existing, Old) \o new

\* lines 227-244
Process ==
    /\ pc = "process"
    /\ LET out == process_data(price_data, shares_data, sectors_data, names_data)
           new == FilterNew(out)
       IN /\ processed' = out
          /\ new_output' = new
          /\ IF Len(new) = 0
             THEN Exit("ok") /\ final_output' = <<>>
             ELSE /\ final_output' = Reconcile(existing_data, new)
                  /\ pc' = "open"
                  /\ UNCHANGED exitCode
    /\ UNCHANGED <<store, envVars, runs, prevExit, envLog, store0, wrote, calls,
                   loadVars, tickers, fetchVars>>

\* line 250: open(..., 'w') truncates the file, or raises and leaves it
OpenStore ==
    /\ pc = "open"
    /\ \/ /\ store' = [kind |-> "garbled", data |-> <<>>]
          /\ wrote' = TRUE
          /\ pc' = "dump"
          /\ UNCHANGED <<exitCode, loadVars, tickers, fetchVars, outVars>>
       \/ /\ Exit("fail")
          /\ DropLocals
          /\ UNCHANGED <<store, wrote>>
    /\ UNCHANGED <<envVars, runs, prevExit, envLog, store0, calls>>

\* line 252: json.dump streams the array into the open file; a write that
\* raises leaves the part written so far
Dump ==
    /\ pc = "dump"
    /\ \/ /\ store' = [kind |-> "json", data |-> final_output]
          /\ Exit("ok")
          /\ UNCHANGED <<loadVars, tickers, fetchVars, outVars>>
       \/ /\ store' = [kind |-> "garbled",
                        data |-> SubSeq(final_output, 1, Len(final_output) \div 2)]
          /\ Exit("fail")
          /\ DropLocals
    /\ UNCHANGED <<envVars, runs, prevExit, envLog, store0, wrote, calls>>

\* lines 256-258: an exception raised while processing reaches main's handler
Fatal ==
    /\ pc = "process"
    /\ Exit("fail")
    /\ DropLocals
    /\ UNCHANGED <<store, envVars, runs, prevExit, envLog, store0, wrote, calls>>

\* ============================================== the inputs of the model
AllSymbols == Range(Fallback) \cup {"GOOG", "FOX", "FOXA", "BRK-B"}

Shape(first, gaps, lo, hi, sw) ==
    [first |-> first, gaps |-> gaps, lo |-> lo, hi |-> hi, sw |-> sw]

\* AAPL: crosses the threshold; falls below it at the end; has a hole in its
\* series; starts at a zero close
AaplRising == Shape(0, {}, 3, 5, 60)
AaplFading == Shape(0, {}, 5, 1, 100)
AaplHole == Shape(0, 64..75, 5, 7, 95)
AaplZero == Shape(0, {}, 0, 5, 30)
AaplShapes == {AaplRising, AaplFading, AaplHole, AaplZero}

\* GOOG: listed throughout; listed late and missing on the last days
GoogEarly == Shape(0, {}, 1, 3, 50)
GoogLate == Shape(30, 100..102, 3, 3, 0)
GoogShapes == {GoogEarly, GoogLate}

Market(a, g) ==
    [t \in {"AAPL", "GOOG", "GOOGL", "FOX", "FOXA"} |->
        CASE t = "AAPL" -> a
          [] t = "GOOG" -> g
          [] t = "GOOGL" -> Shape(0, {10}, 3, 5, 80)
          [] t = "FOX" -> Shape(0, {}, 1, 1, 0)
          [] t = "FOXA" -> Shape(5, 96..98, 1, 3, 70)]

Markets == {Market(a, g) : a \in AaplShapes, g \in GoogShapes}

RunMarkets == {Market(AaplRising, GoogEarly), Market(AaplFading, GoogLate)}

Found(d) == [ok |-> TRUE, dict |-> d]
Raises == [ok |-> FALSE]

GoogFound ==
    Found([sharesOutstanding |-> 1000000, sector |-> "Communication Services",
           longName |-> "Alphabet Inc."])

FoxFound ==
    Found([sharesOutstanding |-> 1000000, sector |-> "Communication Services",
           longName |-> "Fox Corporation"])

\* GOOG's lookup: complete; raising; answering without sector and longName
GoogInfos == {GoogFound, Raises, Found([sharesOutstanding |-> 1000000])}

FoxInfos == {FoxFound, Raises}

Info(g, f) ==
    [t \in AllSymbols |->
        CASE t = "AAPL" -> Found([sharesOutstanding |-> 400001, sector |-> "Technology",
                                  longName |-> "Apple Inc."])
          [] t = "GOOG" -> g
          [] t = "GOOGL" -> Found([sharesOutstanding |-> 400001,
                                   sector |-> "Communication Services",
                                   longName |-> "Alphabet Inc."])
          [] t = "FOX" -> f
          [] t = "FOXA" -> FoxFound
          [] OTHER -> Raises]

Infos == {Info(g, f) : g \in GoogInfos, f \in FoxInfos}

RunInfos == {Info(GoogFound, FoxFound), Info(Raises, Raises)}

\* the scrape: the full table, a table without the second share classes, or
\* an exception
Scrapes ==
    {[ok |-> TRUE, table |-> <<"AAPL", "GOOGL", "GOOG", "FOXA", "FOX", "BRK.B">>],
     [ok |-> TRUE, table |-> <<"AAPL", "GOOG", "FOXA">>],
     [ok |-> FALSE, table |-> <<>>]}

Nows == {MaxDay - 3, MaxDay}

\* ================================================================= spec
\* before the first run: no store or an empty one, nothing called yet
Fresh ==
    /\ pc = "idle"
    /\ runs = 0
    /\ exitCode = "none"
    /\ prevExit = "none"
    /\ envLog = <<Env, Env>>
    /\ store0 = store
    /\ wrote = FALSE
    /\ calls = NoCalls
    /\ existing_data = <<>>
    /\ last_date = <<>>
    /\ tickers = <<>>
    /\ price_data = EmptyFrame
    /\ shares_data = EmptyDict
    /\ sectors_data = EmptyDict
    /\ names_data = EmptyDict
    /\ processed = <<>>
    /\ new_output = <<>>
    /\ final_output = <<>>

Init ==
    /\ store \in {[kind |-> "absent", data |-> <<>>], [kind |-> "json", data |-> <<>>]}
    /\ now \in Nows
    /\ market \in RunMarkets
    /\ info \in RunInfos
    /\ scrape \in Scrapes
    /\ dlFails = FALSE
    /\ pad \in BOOLEAN
    /\ Fresh

\* between two runs the clock advances and the collaborators answer anew
EnvChange ==
    /\ pc = "idle"
    /\ runs >= 1
    /\ runs < MaxRuns
    /\ now' \in {n \in Nows : n >= now}
    /\ scrape' \in Scrapes
    /\ dlFails' \in BOOLEAN
    /\ <<now', scrape', dlFails'>> # <<now, scrape, dlFails>>
    /\ UNCHANGED <<store, market, info, pad, pc, histVars, loadVars, tickers, fetchVars,
                   outVars>>

Next ==
    \/ StartRun
    \/ GetTickers
    \/ FetchData
    \/ Process
    \/ OpenStore
    \/ Dump
    \/ Fatal
    \/ EnvChange

Spec == Init /\ [][Next]_vars

\* ------------------------------------------------ process_data on its own
\* fetch_data and process_data of a first run, over every market, metadata
\* answer and ticker list of the model
InitP ==
    /\ store = [kind |-> "absent", data |-> <<>>]
    /\ now \in Nows
    /\ market \in Markets
    /\ info \in Infos
    /\ scrape \in Scrapes
    /\ dlFails = FALSE
    /\ pad \in BOOLEAN
    /\ pc = "fetch"
    /\ runs = 1
    /\ exitCode = "running"
    /\ prevExit = "none"
    /\ envLog = <<Env, Env>>
    /\ store0 = store
    /\ wrote = FALSE
    /\ calls = [tickers |-> 1, download |-> 0, metadata |-> 0]
    /\ existing_data = <<>>
    /\ last_date = <<>>
    /\ tickers = get_nasdaq_tickers(scrape)
    /\ price_data = EmptyFrame
    /\ shares_data = EmptyDict
    /\ sectors_data = EmptyDict
    /\ names_data = EmptyDict
    /\ processed = <<>>
    /\ new_output = <<>>
    /\ final_output = <<>>

NextP ==
    \/ FetchData
    \/ Process

SpecP == InitP /\ [][NextP]_vars

\* =============================================================== claims
Dates(recs) == [i \in 1..Len(recs) |-> recs[i].date]
Keys(recs) == {<<recs[i].date, recs[i].name>> : i \in 1..Len(recs)}
NamesIn(recs) == {recs[i].name : i \in 1..Len(recs)}
NonEmptyJson(file) == file.kind = "json" /\ Len(file.data) > 0

\* the current run repeats the run before: same upstream answers, same clock,
\* and the run before returned normally
RepeatsRun == runs >= 2 /\ prevExit = "ok" /\ envLog[1] = envLog[2]

\* C1: a run of main() that follows a normally ended run, with the same
\* upstream data and the same current date, does not open the store for
\* writing, and the store stays what it was after the first of the two.
C1_SecondRunNoWrite == RepeatsRun => (~wrote /\ store = store0)

\* the repeated run fetched and processed, found nothing new, and returned
C1_Witness ==
    /\ RepeatsRun
    /\ pc = "idle"
    /\ exitCode = "ok"
    /\ NonEmptyJson(store)
    /\ calls.download = 1
    /\ Len(processed) > 0
    /\ Len(new_output) = 0

\* a run that failed, or whose download raised or came back empty
RunFailed ==
    /\ pc = "idle"
    /\ runs >= 1
    /\ \/ exitCode = "fail"
       \/ exitCode = "ok" /\ calls.download = 1 /\ IsEmpty(price_data)

\* C2: every run of main() that ends in failure leaves the persisted store
\* exactly as it was before the run.
C2_FailedRunKeepsStore == RunFailed => store = store0

\* C3: when the store is non-empty and the day after its maximum date lies
\* after the current date, main() returns successfully with no call to the
\* ticker provider, the download or a metadata lookup, and without writing.
C3_UpToDateExit ==
    (runs >= 1 /\ NonEmptyJson(store0) /\ MaxOf(Dates(store0.data)) + 1 > envLog[2].now)
        => /\ pc = "idle"
           /\ exitCode = "ok"
           /\ calls = NoCalls
           /\ ~wrote
           /\ store = store0

C3_Witness ==
    /\ runs >= 2
    /\ NonEmptyJson(store0)
    /\ MaxOf(Dates(store0.data)) + 1 > envLog[2].now
    /\ pc = "idle"

\* C4: after any sequence of runs from an absent or empty store, no two
\* persisted records have the same (date, name).
C4_UniqueKeys == Cardinality(Keys(store.data)) = Len(store.data)

\* a resumed run has appended to a store that held records already
C4_Witness ==
    /\ pc = "idle"
    /\ exitCode = "ok"
    /\ wrote
    /\ NonEmptyJson(store0)
    /\ NonEmptyJson(store)
    /\ Len(processed) > Len(new_output)

MergeRules ==
    {[id |-> "GOOG(L)", a |-> "GOOG", b |-> "GOOGL",
      sector |-> "Technology", name |-> "Alphabet Inc."],
     [id |-> "FOX(A)", a |-> "FOX", b |-> "FOXA",
      sector |-> "Communication Services", name |-> "Fox Corporation"]}

\* C5: the persisted dataset never holds both a record named with a merged id
\* and a record named with one of that rule's source tickers.
C5_MergedExclusive ==
    \A r \in MergeRules :
        ~(r.id \in NamesIn(store.data) /\ {r.a, r.b} \cap NamesIn(store.data) # {})

\* the capitalisation table process_data was given: price * shares, with the
\* merged columns
CapTable == Merged(price_data, shares_data, sectors_data, names_data).df

\* the cells <<row, column>> of a table whose capitalisation is present
Present(tab) ==
    {c \in (1..Len(tab.index)) \X Range(tab.columns) : ~tab.val[c[2]][c[1]].nan}

\* the (date, name) cells of the table with a capitalisation of at least
\* 1,000,000
LargeCells ==
    LET tab == CapTable
    IN {<<tab.index[c[1]], c[2]>> :
          c \in {p \in Present(tab) : tab.val[p[2]][p[1]].v >= MinCap * PriceScale}}

\* the cells of the table with a capitalisation below 1,000,000
SmallCells ==
    LET tab == CapTable
    IN {p \in Present(tab) : tab.val[p[2]][p[1]].v < MinCap * PriceScale}

\* C7: every persisted record has value >= 1,000,000, and process_data emits
\* a record only for a (ticker, date) whose capitalisation is present and at
\* least 1,000,000.
C7_Threshold ==
    /\ \A i \in 1..Len(store.data) : store.data[i].value >= MinCap
    /\ Len(processed) > 0 =>
          /\ \A i \in 1..Len(processed) : processed[i].value >= MinCap
          /\ Keys(processed) \subseteq LargeCells

\* records were persisted from a table that also had cells below the threshold
C7_Witness ==
    /\ pc = "idle"
    /\ exitCode = "ok"
    /\ wrote
    /\ NonEmptyJson(store)
    /\ Len(processed) > 0
    /\ SmallCells # {}

\* a run that began with a non-empty store and wrote the store
ResumedAndWrote ==
    /\ pc = "idle"
    /\ exitCode = "ok"
    /\ wrote
    /\ NonEmptyJson(store0)

\* C8: a run that starts with a non-empty store whose maximum date is lastDate
\* and writes the store, writes every previously persisted record, unchanged,
\* followed by the newly computed records dated after lastDate, and nothing
\* else.
C8_ResumeWindow ==
    ResumedAndWrote =>
        LET lastDate == MaxOf(Dates(store0.data))
            After(d) == d.date >= lastDate + 1
        IN /\ store.kind = "json"
           /\ store.data = store0.data \o SelectSeq(processed, After)
           /\ Len(store.data) > Len(store0.data)

\* the run computed records of the context window and persisted none of them
C8_Witness ==
    /\ ResumedAndWrote
    /\ \E i \in 1..Len(processed) :
          /\ processed[i].date <= MaxOf(Dates(store0.data))
          /\ processed[i].date >= MaxOf(Dates(store0.data)) + 1 - ContextDays

\* process_data has run on a non-empty table
AfterProcess == ~IsEmpty(price_data) /\ pc # "process"

\* the growth the claim describes for the cell in row i of a column: the
\* change against the value 63 places earlier in the column's own sequence of
\* present values, and 0 when there are fewer than 63 earlier ones or that
\* value is zero
OwnGrowth(col, i) ==
    LET Has(j) == ~col[j].nan
        own == SelectSeq([j \in 1..i |-> j], Has)
        k == Len(own)
    IN IF k <= Periods THEN 0
       ELSE IF col[own[k - Periods]].v = 0 THEN 0
       ELSE Round4(col[i].v, col[own[k - Periods]].v)

\* C6: every record emitted for (ticker, date_i) has growth
\* cap[date_i] / cap[date_{i-63}] - 1, counting only the dates on which the
\* ticker itself has a capitalisation, and exactly 0 when the ticker has fewer
\* than 63 earlier observations or the capitalisation 63 observations earlier
\* is zero.
C6_OwnSeriesGrowth ==
    AfterProcess =>
        LET tab == CapTable
            got == {<<processed[i].date, processed[i].name, processed[i].growth>> :
                      i \in 1..Len(processed)}
        IN \A p \in {c \in Present(tab) : tab.val[c[2]][c[1]].v >= MinCap * PriceScale} :
              <<tab.index[p[1]], p[2],
                [inf |-> FALSE, e4 |-> OwnGrowth(tab.val[p[2]], p[1])]>> \in got

InCapTable(t) == t \in Range(price_data.columns) /\ t \in DOMAIN shares_data
RuleFires(r) == InCapTable(r.a) /\ InCapTable(r.b)
SourceCap(t, i) ==
    IF price_data.val[t][i].nan THEN NaN ELSE Num(price_data.val[t][i].v * shares_data[t])
BothPresent(r, i) == ~SourceCap(r.a, i).nan /\ ~SourceCap(r.b, i).nan
SumOf(r, i) == SourceCap(r.a, i).v + SourceCap(r.b, i).v

\* C9: when both source tickers of a merge rule are in the cap table,
\* process_data emits, for every date on which both have a capitalisation
\* whose sum reaches the threshold, a merged-id record valued at the sum; no
\* merged-id record for any other date; and no record named with a source.
C9_DualClassMerge ==
    AfterProcess =>
        LET keys == Keys(processed)
            valued == {<<processed[i].date, processed[i].name, processed[i].value>> :
                         i \in 1..Len(processed)}
        IN \A r \in MergeRules :
              RuleFires(r) =>
                 /\ {r.a, r.b} \cap NamesIn(processed) = {}
                 /\ \A i \in 1..Len(price_data.index) :
                       IF BothPresent(r, i) /\ SumOf(r, i) >= MinCap * PriceScale
                       THEN <<price_data.index[i], r.id, SumOf(r, i) \div PriceScale>>
                                \in valued
                       ELSE <<price_data.index[i], r.id>> \notin keys

\* a rule fired on a table with a date on which both sources are present and
\* a date on which exactly one of them is
C9_Witness ==
    /\ AfterProcess
    /\ \E r \in MergeRules :
          /\ RuleFires(r)
          /\ r.id \in NamesIn(processed)
          /\ \E i \in 1..Len(price_data.index) :
                SourceCap(r.a, i).nan # SourceCap(r.b, i).nan
          /\ \E i \in 1..Len(price_data.index) :
                /\ BothPresent(r, i)
                /\ SourceCap(r.a, i).v < MinCap * PriceScale
                /\ SourceCap(r.b, i).v < MinCap * PriceScale
                /\ SumOf(r, i) >= MinCap * PriceScale

\* C10: when a merge rule fires, the merged id's category and fullname are
\* the first source ticker's sector and name, and the rule's hardcoded values
\* when the first source holds the defaults 'Unknown' / its own symbol.
C10_MergedMetadata ==
    AfterProcess =>
        \A r \in MergeRules :
            RuleFires(r) =>
                \A i \in 1..Len(processed) :
                    processed[i].name = r.id =>
                        /\ processed[i].category =
                              (IF sectors_data[r.a] = "Unknown" THEN r.sector
                               ELSE sectors_data[r.a])
                        /\ processed[i].fullname =
                              (IF names_data[r.a] = r.a THEN r.name ELSE names_data[r.a])

====
